---- MODULE Spec2Model ----
(***************************************************************************)
(* A model of src/tcp_echo.cc: the rate-controlled TCP packet generator    *)
(* CustomTcpClient and the latency recorder PacketReceived, run by a       *)
(* discrete-event scheduler with a virtual clock.                          *)
(*                                                                         *)
(* Machine integers keep their width.  A 64-bit word (ns3::Time's int64_t  *)
(* tick count, the uint64_t timestamp) is a tuple of four 16-bit limbs,    *)
(* least significant first; a uint32_t is a tuple of two such limbs.       *)
(***************************************************************************)
EXTENDS Integers, Sequences, FiniteSets

(* ------------------------------------------------------------------ *)
(* Bounds of the model                                                 *)
(* ------------------------------------------------------------------ *)
MaxRate == 2
MaxDuration == 1
MaxStops == 2
MaxArrivals == 2
Delta == 30000

(* Time::SetResolution(Time::NS): ticks per second *)
NsPerSecond == 1000000000

(* client->Setup(serverAddress, 100, 10, 10): packetSize, rate, duration *)
MainPacketSize == 100
MainRate == 10
MainDuration == 10

(* ------------------------------------------------------------------ *)
(* Fixed-width words                                                   *)
(* ------------------------------------------------------------------ *)
Byte == 2 ^ 8
Limb == Byte * Byte
HalfLimb == Limb \div 2

Zero64 == <<0, 0, 0, 0>>

\* a natural below 2^31 as a 64-bit word
FromNat(n) == <<n % Limb, n \div Limb, 0, 0>>

\* a natural below 2^31 as a uint32_t
U32(n) == <<n % Limb, n \div Limb>>

\* the value of a uint32_t below 2^31
Nat32(u) == u[1] + u[2] * Limb

\* int64_t / uint64_t addition, modulo 2^64
Add64(a, b) ==
    LET s1 == a[1] + b[1]
        s2 == a[2] + b[2] + (s1 \div Limb)
        s3 == a[3] + b[3] + (s2 \div Limb)
        s4 == a[4] + b[4] + (s3 \div Limb)
    IN  <<s1 % Limb, s2 % Limb, s3 % Limb, s4 % Limb>>

\* int64_t subtraction, modulo 2^64 (two's complement)
Sub64(a, b) ==
    LET d1 == a[1] - b[1]
        d2 == a[2] - b[2] - (IF d1 < 0 THEN 1 ELSE 0)
        d3 == a[3] - b[3] - (IF d2 < 0 THEN 1 ELSE 0)
        d4 == a[4] - b[4] - (IF d3 < 0 THEN 1 ELSE 0)
    IN  <<d1 % Limb, d2 % Limb, d3 % Limb, d4 % Limb>>

\* the sign bit of an int64_t
IsNeg64(a) == a[4] >= HalfLimb

\* unsigned order of two words of equal sign
LessU64(a, b) ==
    \/ a[4] < b[4]
    \/ a[4] = b[4] /\ a[3] < b[3]
    \/ a[4] = b[4] /\ a[3] = b[3] /\ a[2] < b[2]
    \/ a[4] = b[4] /\ a[3] = b[3] /\ a[2] = b[2] /\ a[1] < b[1]

\* int64_t order (Time::operator<)
Less64(a, b) ==
    IF IsNeg64(a) # IsNeg64(b) THEN IsNeg64(a) ELSE LessU64(a, b)

LessEq64(a, b) == a = b \/ Less64(a, b)

\* uint32_t order
Less32(a, b) == a[2] < b[2] \/ (a[2] = b[2] /\ a[1] < b[1])

\* ++ on a uint32_t, modulo 2^32
Inc32(a) ==
    LET s1 == a[1] + 1
        s2 == a[2] + (s1 \div Limb)
    IN  <<s1 % Limb, s2 % Limb>>

\* the 32-bit product of two 16-bit limbs, as <<low limb, high limb>>
MulLimb(x, y) ==
    LET p1 == x * (y % Byte)
        p2 == x * (y \div Byte)
        lo == p1 + Byte * (p2 % Byte)
    IN  <<lo % Limb, ((p2 \div Byte) + (lo \div Limb)) % Limb>>

\* uint32_t * uint32_t, modulo 2^32
Mul32(a, b) ==
    LET ll == MulLimb(a[1], b[1])
        lh == MulLimb(a[1], b[2])
        hl == MulLimb(a[2], b[1])
    IN  <<ll[1], (ll[2] + lh[1] + hl[1]) % Limb>>

\* a uint32_t widened to 64 bits
Widen(u) == <<u[1], u[2], 0, 0>>

\* the product of two uint32_t values as a 64-bit word, with no wrap-around
Product64(a, b) ==
    LET ll == MulLimb(a[1], b[1])
        lh == MulLimb(a[1], b[2])
        hl == MulLimb(a[2], b[1])
        hh == MulLimb(a[2], b[2])
        s2 == ll[2] + lh[1] + hl[1]
        s3 == lh[2] + hl[2] + hh[1] + (s2 \div Limb)
        s4 == hh[2] + (s3 \div Limb)
    IN  <<ll[1], s2 % Limb, s3 % Limb, s4 % Limb>>

\* the eight bytes of a uint64_t in memory (host order, least significant first)
Bytes64(u) ==
    <<u[1] % Byte, u[1] \div Byte, u[2] % Byte, u[2] \div Byte,
      u[3] % Byte, u[3] \div Byte, u[4] % Byte, u[4] \div Byte>>

\* the uint64_t whose memory holds the eight bytes b
Word64(b) ==
    <<b[1] + Byte * b[2], b[3] + Byte * b[4],
      b[5] + Byte * b[6], b[7] + Byte * b[8]>>

Min(a, b) == IF a < b THEN a ELSE b

(* ------------------------------------------------------------------ *)
(* Values                                                              *)
(* ------------------------------------------------------------------ *)
NullPtr == "null"
OpenSocket == "socket"

Rates == 0 .. MaxRate
Durations == 0 .. MaxDuration
PacketSizes == {8, 100}

\* an indeterminate uint32_t: a member the constructor leaves unset
Uninit32 == {U32(0), U32(1)}

\* the Time a conversion of an infinite double can yield
UndefTimes == {Zero64, <<0, 0, 0, HalfLimb>>}

\* payload sizes and timestamps of arrivals the transport hands up that no
\* send of this generator produced
ForeignSizes == {7, 9}
ForeignStamps(t) == {Add64(t, FromNat(Delta))}

\* (rate, duration) arguments of Setup over the whole uint32_t range, as limbs:
\* 1 * 1, 2 * 1, 3 * 0xAAAAAAAB, 0x10000 * 0x10000, 0x80000000 * 2 and
\* 0xFFFFFFFF * 0xFFFFFFFF
WideConfigs ==
    { <<U32(1), U32(1)>>,
      <<U32(2), U32(1)>>,
      <<U32(3), <<43691, 43690>>>>,
      <<<<0, 1>>, <<0, 1>>>>,
      <<<<0, HalfLimb>>, U32(2)>>,
      <<<<Limb - 1, Limb - 1>>, <<Limb - 1, Limb - 1>>>> }

(* ------------------------------------------------------------------ *)
(* State                                                               *)
(* ------------------------------------------------------------------ *)
VARIABLES
    now,            \* Simulator::Now()
    pending,        \* the scheduler's queue: fire times of scheduled SendPacket calls
    m_socket,       \* CustomTcpClient members
    m_connected,
    m_packetSize,
    m_numPackets,
    m_interval,
    m_packetsSent,
    latencies,      \* the global sample vector, in nanoseconds
    phase,          \* the driver: "constructed", "configured", "started"
    conn,           \* the transport's connect attempt: "none", "pending", "succeeded",
                    \* "failed", or "unheard" (decided with no callback set to hear it)
    inflight,       \* payloads written to the transport and not yet delivered
    cfg,            \* the arguments of Setup
    sends,          \* history: every Socket::Send, with its instant
    arrivals,       \* history: every PacketReceived, with its instant
    connTime,       \* history: the instant of ConnectionSucceeded
    stops,          \* history: calls of StopApplication
    stoppedEarly,   \* history: StopApplication ran with packets still to send
    closes,         \* history: calls of Socket::Close
    connects,       \* history: calls of Socket::Connect
    nSendStep,      \* history: invocations of SendPacket
    nScheduled,     \* history: calls of Simulator::Schedule
    nullUse         \* history: a member call through a null m_socket

genVars == <<m_socket, m_connected, m_packetSize, m_numPackets, m_interval, m_packetsSent>>
histVars == <<cfg, sends, arrivals, connTime, stops, stoppedEarly, closes, connects,
              nSendStep, nScheduled, nullUse>>
vars == <<now, pending, genVars, latencies, phase, conn, inflight, histVars>>

(* ------------------------------------------------------------------ *)
(* The scheduler                                                       *)
(* ------------------------------------------------------------------ *)
\* Simulator::Schedule: events run in time order, insertion order within an instant
RECURSIVE Insert(_, _)
Insert(q, t) ==
    IF q = <<>> THEN <<t>>
    ELSE IF LessEq64(Head(q), t) THEN <<Head(q)>> \o Insert(Tail(q), t)
    ELSE <<t>> \o q

\* the instants at which the driver or the transport can run a handler next:
\* not before now, and not after the earliest scheduled callback
EnvTimes ==
    {t \in {now, Add64(now, FromNat(Delta))} \cup (IF pending = <<>> THEN {} ELSE {Head(pending)}) :
        pending = <<>> \/ LessEq64(t, Head(pending))}

\* the instants at which the driver can stop the application next: at once, or
\* in the instant of the earliest scheduled callback and before it
StopTimes == {now} \cup (IF pending = <<>> THEN {} ELSE {Head(pending)})

(* ------------------------------------------------------------------ *)
(* CustomTcpClient                                                     *)
(* ------------------------------------------------------------------ *)
\* m_interval = Seconds(1.0 / rate), for rate > 0: the nearest tick count
IntervalOf(rate) ==
    IF rate[2] >= HalfLimb THEN Zero64
    ELSE LET n == Nat32(rate)
             q == NsPerSecond \div n
             r == NsPerSecond % n
         IN  FromNat(IF r >= n - r THEN q + 1 ELSE q)

\* a slip: the duration is left out of the packet count
NumPackets_rateOnly(rate, duration) == rate

\* m_numPackets = rate * duration, in uint32_t
NumPackets(rate, duration) == Mul32(rate, duration)

Setup ==
    /\ phase = "constructed"
    /\ \E size \in PacketSizes, rate \in Rates, duration \in Durations :
          /\ m_packetSize' = U32(size)
          /\ m_interval' \in (IF rate = 0 THEN UndefTimes ELSE {IntervalOf(U32(rate))})
          /\ m_numPackets' = NumPackets(U32(rate), U32(duration))
          /\ cfg' = [size |-> size, rate |-> rate, duration |-> duration]
    /\ phase' = "configured"
    /\ UNCHANGED <<now, pending, m_socket, m_connected, m_packetsSent, latencies, conn,
                   inflight, sends, arrivals, connTime, stops, stoppedEarly, closes,
                   connects, nSendStep, nScheduled, nullUse>>

\* Setup with rate and duration anywhere in uint32_t; cfg keeps them as limbs
SetupWide ==
    /\ phase = "constructed"
    /\ \E size \in PacketSizes, c \in WideConfigs :
          /\ m_packetSize' = U32(size)
          /\ m_interval' = IntervalOf(c[1])
          /\ m_numPackets' = NumPackets(c[1], c[2])
          /\ cfg' = [size |-> size, rate |-> c[1], duration |-> c[2]]
    /\ phase' = "configured"
    /\ UNCHANGED <<now, pending, m_socket, m_connected, m_packetsSent, latencies, conn,
                   inflight, sends, arrivals, connTime, stops, stoppedEarly, closes,
                   connects, nSendStep, nScheduled, nullUse>>

\* Setup as main calls it
SetupMain ==
    /\ phase = "constructed"
    /\ m_packetSize' = U32(MainPacketSize)
    /\ m_interval' = IntervalOf(U32(MainRate))
    /\ m_numPackets' = NumPackets(U32(MainRate), U32(MainDuration))
    /\ cfg' = [size |-> MainPacketSize, rate |-> MainRate, duration |-> MainDuration]
    /\ phase' = "configured"
    /\ UNCHANGED <<now, pending, m_socket, m_connected, m_packetsSent, latencies, conn,
                   inflight, sends, arrivals, connTime, stops, stoppedEarly, closes,
                   connects, nSendStep, nScheduled, nullUse>>

\* whether the connect callbacks are set when Socket::Connect runs: Connect is
\* called first and its result dropped, SetConnectCallback follows it
CallbacksSetAtConnect == FALSE

\* the transport decides the attempt within the Connect call (its return value, or
\* a notification to the callbacks set at that point), or reports it later
StartApplication ==
    /\ phase = "configured"
    /\ \E t \in EnvTimes : now' = t
    /\ m_socket' = OpenSocket
    /\ connects' = connects + 1
    /\ \E decided \in BOOLEAN :
          conn' = IF decided /\ ~CallbacksSetAtConnect THEN "unheard" ELSE "pending"
    /\ phase' = "started"
    /\ UNCHANGED <<pending, m_connected, m_packetSize, m_numPackets, m_interval,
                   m_packetsSent, latencies, inflight, cfg, sends, arrivals, connTime,
                   stops, stoppedEarly, closes, nSendStep, nScheduled, nullUse>>

\* a slip: the test of the pointer is missing
HasSocket_always(sock) == TRUE

\* if (m_socket)
HasSocket(sock) == sock # NullPtr

\* a slip: the socket is closed and the pointer kept
ReleasedSocket_kept(sock) == sock

\* m_socket = nullptr
ReleasedSocket(sock) == NullPtr

\* the scheduler runs StopApplication at the stop time, which main sets after
\* the start time (2 s, 20 s)
StopApplication ==
    /\ phase = "started"
    /\ stops < MaxStops
    /\ \E t \in StopTimes : now' = t
    /\ IF HasSocket(m_socket)
       THEN /\ closes' = closes + 1
            /\ m_socket' = ReleasedSocket(m_socket)
       ELSE UNCHANGED <<closes, m_socket>>
    /\ stops' = stops + 1
    /\ stoppedEarly' = (stoppedEarly \/ Less32(m_packetsSent, m_numPackets))
    /\ UNCHANGED <<pending, m_connected, m_packetSize, m_numPackets, m_interval,
                   m_packetsSent, latencies, phase, conn, inflight, cfg, sends, arrivals,
                   connTime, connects, nSendStep, nScheduled, nullUse>>

\* a slip: the guard on the socket is missing
SocketIsNull_unchecked(sock) == FALSE

\* if (!m_socket) return
SocketIsNull(sock) == sock = NullPtr

\* a slip: the comparison admits one packet more
MaySend_inclusive(sent, total) == ~Less32(total, sent)

\* if (m_packetsSent < m_numPackets)
MaySend(sent, total) == Less32(sent, total)

\* uint64_t timestampNs = sendTime.GetNanoSeconds(): the tick count, same bits
GetNanoSeconds(t) == t

\* Create<Packet>((uint8_t *)&timestampNs, sizeof(timestampNs))
CreatePacket(timestampNs) == [size |-> 8, data |-> Bytes64(timestampNs)]

\* a variant: the next call is scheduled only while packets remain
ScheduleAfterSend_ifMore(sent, total) == Less32(sent, total)

\* Simulator::Schedule(m_interval, ...) follows every send
ScheduleAfterSend(sent, total) == TRUE

\* a slip: the delay is counted twice
FireTime_twice(t, interval) == Add64(Add64(t, interval), interval)

\* the instant Simulator::Schedule(m_interval, ...) posts the callback at
FireTime(t, interval) == Add64(t, interval)

\* SendPacket(), run at instant t with q the scheduler's queue
SendPacket(t, q) ==
    /\ nSendStep' = nSendStep + 1
    /\ IF SocketIsNull(m_socket)
       THEN /\ pending' = q
            /\ UNCHANGED <<m_packetsSent, sends, inflight, nScheduled, nullUse>>
       ELSE IF MaySend(m_packetsSent, m_numPackets)
       THEN LET packet == CreatePacket(GetNanoSeconds(t))
                sent == Inc32(m_packetsSent)
            IN  /\ sends' = Append(sends, [time |-> t, pkt |-> packet])
                /\ inflight' = Append(inflight, packet)
                /\ nullUse' = (nullUse \/ m_socket = NullPtr)
                /\ m_packetsSent' = sent
                /\ IF ScheduleAfterSend(sent, m_numPackets)
                   THEN /\ pending' = Insert(q, FireTime(t, m_interval))
                        /\ nScheduled' = nScheduled + 1
                   ELSE /\ pending' = q
                        /\ nScheduled' = nScheduled
       ELSE /\ pending' = q
            /\ UNCHANGED <<m_packetsSent, sends, inflight, nScheduled, nullUse>>

\* the transport reports the connect attempt's success
ConnectionSucceeded ==
    /\ conn = "pending"
    /\ \E t \in EnvTimes :
          /\ now' = t
          /\ connTime' = t
          /\ SendPacket(t, pending)
    /\ conn' = "succeeded"
    /\ m_connected' = TRUE
    /\ UNCHANGED <<m_socket, m_packetSize, m_numPackets, m_interval, latencies, phase,
                   cfg, arrivals, stops, stoppedEarly, closes, connects>>

\* a slip: the failure continuation starts the send loop
ConnectionFailed_sends ==
    /\ conn = "pending"
    /\ \E t \in EnvTimes :
          /\ now' = t
          /\ SendPacket(t, pending)
    /\ conn' = "failed"
    /\ UNCHANGED <<m_socket, m_connected, m_packetSize, m_numPackets, m_interval,
                   latencies, phase, cfg, arrivals, connTime, stops, stoppedEarly,
                   closes, connects>>

\* the transport reports the connect attempt's failure
ConnectionFailed ==
    /\ conn = "pending"
    /\ \E t \in EnvTimes : now' = t
    /\ conn' = "failed"
    /\ UNCHANGED <<pending, genVars, latencies, phase, inflight, cfg, sends, arrivals,
                   connTime, stops, stoppedEarly, closes, connects, nSendStep,
                   nScheduled, nullUse>>

\* the scheduler runs the earliest scheduled SendPacket
SendStep ==
    /\ pending # <<>>
    /\ now' = Head(pending)
    /\ SendPacket(Head(pending), Tail(pending))
    /\ UNCHANGED <<m_socket, m_connected, m_packetSize, m_numPackets, m_interval,
                   latencies, phase, conn, cfg, arrivals, connTime, stops, stoppedEarly,
                   closes, connects>>

(* ------------------------------------------------------------------ *)
(* The latency recorder                                                *)
(* ------------------------------------------------------------------ *)
\* a slip: the timestamp bytes are read in the opposite order
ExtractSendTime_bigEndian(packet) ==
    Word64([i \in 1 .. 8 |-> packet.data[9 - i]])

\* a slip: the comparison rejects a payload of exactly eight bytes
HasTimestamp_strict(packet) == packet.size > 8

\* if (packet->GetSize() >= sizeof(uint64_t))
HasTimestamp(packet) == packet.size >= 8

\* packet->CopyData((uint8_t *)&timestampNs, sizeof(timestampNs)); NanoSeconds(timestampNs)
ExtractSendTime(packet) == Word64(packet.data)

\* a slip: the operands are exchanged
Latency_swapped(receiveTime, sendTime) == Sub64(sendTime, receiveTime)

\* (receiveTime - sendTime), the tick count GetSeconds() converts
Latency(receiveTime, sendTime) == Sub64(receiveTime, sendTime)

\* a slip: the new sample is put in front of the log
PacketReceived_front(t, packet) ==
    /\ arrivals' = Append(arrivals, [time |-> t, pkt |-> packet])
    /\ IF HasTimestamp(packet)
       THEN latencies' = <<Latency(t, ExtractSendTime(packet))>> \o latencies
       ELSE UNCHANGED latencies

\* a slip: the recorder looks at the generator's socket and drops what arrives
\* after it was released
PacketReceived_whileOpen(t, packet) ==
    /\ arrivals' = Append(arrivals, [time |-> t, pkt |-> packet])
    /\ IF HasTimestamp(packet) /\ m_socket # NullPtr
       THEN latencies' = Append(latencies, Latency(t, ExtractSendTime(packet)))
       ELSE UNCHANGED latencies

\* PacketReceived(packet, from), run at instant t
PacketReceived(t, packet) ==
    /\ arrivals' = Append(arrivals, [time |-> t, pkt |-> packet])
    /\ IF HasTimestamp(packet)
       THEN latencies' = Append(latencies, Latency(t, ExtractSendTime(packet)))
       ELSE UNCHANGED latencies

\* a payload of size bytes whose leading bytes are those of the timestamp stamp
Payload(size, stamp) == [size |-> size, data |-> SubSeq(Bytes64(stamp), 1, Min(size, 8))]

\* the sink receives the oldest payload in flight
Deliver ==
    /\ inflight # <<>>
    /\ Len(arrivals) < MaxArrivals
    /\ \E t \in EnvTimes :
          /\ now' = t
          /\ PacketReceived(t, Head(inflight))
    /\ inflight' = Tail(inflight)
    /\ UNCHANGED <<pending, genVars, phase, conn, cfg, sends, connTime, stops,
                   stoppedEarly, closes, connects, nSendStep, nScheduled, nullUse>>

\* the sink receives a payload that no send of this generator produced; events
\* run inside Simulator::Run, which main enters after Setup
DeliverForeign ==
    /\ phase # "constructed"
    /\ Len(arrivals) < MaxArrivals
    /\ \E t \in {now}, size \in ForeignSizes :
          \E stamp \in ForeignStamps(t) :
              /\ now' = t
              /\ PacketReceived(t, Payload(size, stamp))
    /\ UNCHANGED <<pending, genVars, phase, conn, inflight, cfg, sends, connTime, stops,
                   stoppedEarly, closes, connects, nSendStep, nScheduled, nullUse>>

\* a transport with one fixed transit delay: nothing, or the channel's delay
Transits == {Zero64, FromNat(Delta)}

\* the transit delay of this run: open until the first arrival, then the one
\* the first arrival showed
TransitChoices ==
    IF arrivals = <<>> THEN Transits ELSE {Sub64(arrivals[1].time, sends[1].time)}

\* the instant the oldest payload in flight arrives when the transit takes d
NextDue(d) == Add64(sends[Len(arrivals) + 1].time, d)

\* the sink receives the oldest payload in flight one transit delay after its
\* send, and not after a scheduled callback that is due earlier
DeliverTransit ==
    /\ inflight # <<>>
    /\ \E d \in TransitChoices :
          /\ IF pending = <<>> THEN TRUE ELSE LessEq64(NextDue(d), Head(pending))
          /\ now' = NextDue(d)
          /\ PacketReceived(NextDue(d), Head(inflight))
    /\ inflight' = Tail(inflight)
    /\ UNCHANGED <<pending, genVars, phase, conn, cfg, sends, connTime, stops,
                   stoppedEarly, closes, connects, nSendStep, nScheduled, nullUse>>

\* the scheduler runs the earliest scheduled SendPacket when no arrival is due
\* before it
SendStepInOrder ==
    /\ pending # <<>>
    /\ IF inflight = <<>> THEN TRUE
       ELSE \A d \in TransitChoices : Less64(Head(pending), NextDue(d))
    /\ SendStep

(* ------------------------------------------------------------------ *)
(* The system                                                          *)
(* ------------------------------------------------------------------ *)
Init ==
    /\ now = Zero64
    /\ pending = <<>>
    /\ m_socket = NullPtr
    /\ m_connected = FALSE
    /\ m_packetSize \in Uninit32
    /\ m_numPackets \in Uninit32
    /\ m_interval = Zero64
    /\ m_packetsSent = U32(0)
    /\ latencies = <<>>
    /\ phase = "constructed"
    /\ conn = "none"
    /\ inflight = <<>>
    /\ cfg = [size |-> 0, rate |-> 0, duration |-> 0]
    /\ sends = <<>>
    /\ arrivals = <<>>
    /\ connTime = Zero64
    /\ stops = 0
    /\ stoppedEarly = FALSE
    /\ closes = 0
    /\ connects = 0
    /\ nSendStep = 0
    /\ nScheduled = 0
    /\ nullUse = FALSE

Next ==
    \/ Setup
    \/ StartApplication
    \/ StopApplication
    \/ ConnectionSucceeded
    \/ ConnectionFailed
    \/ SendStep
    \/ Deliver
    \/ DeliverForeign

Spec == Init /\ [][Next]_vars

\* StopApplication called on an application that was set up and never started:
\* the constructor left m_socket null (m_socket(0))
StopBeforeStart ==
    /\ phase = "configured"
    /\ stops < MaxStops
    /\ now' = now
    /\ IF HasSocket(m_socket)
       THEN /\ closes' = closes + 1
            /\ m_socket' = ReleasedSocket(m_socket)
       ELSE UNCHANGED <<closes, m_socket>>
    /\ stops' = stops + 1
    /\ stoppedEarly' = (stoppedEarly \/ Less32(m_packetsSent, m_numPackets))
    /\ UNCHANGED <<pending, m_connected, m_packetSize, m_numPackets, m_interval,
                   m_packetsSent, latencies, phase, conn, inflight, cfg, sends, arrivals,
                   connTime, connects, nSendStep, nScheduled, nullUse>>

\* the generator alone, driven in any order: StopApplication may come before
\* StartApplication, and nothing is delivered to the sink
NextAnyOrder ==
    \/ Setup
    \/ StartApplication
    \/ StopBeforeStart
    \/ StopApplication
    \/ ConnectionSucceeded
    \/ ConnectionFailed
    \/ SendStep

SpecAnyOrder == Init /\ [][NextAnyOrder]_vars

\* the generator alone, set up with arguments from the whole uint32_t range
NextWide ==
    \/ SetupWide
    \/ StartApplication
    \/ StopApplication
    \/ ConnectionSucceeded
    \/ ConnectionFailed
    \/ SendStep

SpecWide == Init /\ [][NextWide]_vars

\* main's run: one client set up with rate 10 and duration 10, a connection
\* that may succeed, and a transport with a fixed transit delay
NextE2E ==
    \/ SetupMain
    \/ StartApplication
    \/ ConnectionSucceeded
    \/ SendStepInOrder
    \/ DeliverTransit

SpecE2E == Init /\ [][NextE2E]_vars

\* Simulator::Run runs every scheduled event: a scheduled SendPacket is not left
\* in the queue forever
LiveSpec == Init /\ [][NextAnyOrder]_vars /\ WF_vars(SendStep)

(* ------------------------------------------------------------------ *)
(* Properties                                                          *)
(* ------------------------------------------------------------------ *)
Configured == phase # "constructed"

\* the connection succeeded and no SendPacket call is scheduled any more
Drained == conn = "succeeded" /\ pending = <<>>

\* k times the duration d
RECURSIVE Times64(_, _)
Times64(k, d) == IF k = 0 THEN Zero64 ELSE Add64(Times64(k - 1, d), d)

\* C1 where rate * duration does not wrap (rates to MaxRate, durations to
\* MaxDuration): with rate > 0 the generator never performs more than rate * duration
\* sends, and performs exactly that many once the connection has succeeded, the
\* scheduler has drained and StopApplication never ran with packets left.
C1_ExactSendCount ==
    (Configured /\ cfg.rate > 0) =>
        /\ Len(sends) <= cfg.rate * cfg.duration
        /\ (Drained /\ ~stoppedEarly) => Len(sends) = cfg.rate * cfg.duration

C1_Witness ==
    /\ cfg.rate = 2 /\ cfg.duration = 1
    /\ Drained /\ ~stoppedEarly
    /\ Len(sends) = 2

\* C2: the k-th send (k = 0, 1, ...) happens at the instant of
\* ConnectionSucceeded plus k intervals, the first in that very instant, and a
\* run that is not stopped early performs all m_numPackets of them.
C2_SendInstants ==
    /\ \A k \in 1 .. Len(sends) :
          sends[k].time = Add64(connTime, Times64(k - 1, m_interval))
    /\ (Drained /\ ~stoppedEarly) => Len(sends) = Nat32(m_numPackets)

C2_Witness ==
    /\ connTime # Zero64
    /\ Len(sends) = 2
    /\ sends[1].time = connTime
    /\ sends[2].time = Add64(connTime, FromNat(NsPerSecond \div 2))
    /\ Drained /\ ~stoppedEarly

\* C3: once StopApplication has run with packets still to send, no step
\* performs a send or changes m_packetsSent, although the SendPacket call
\* scheduled before still fires.
C3_NoSendAfterStop ==
    [][stoppedEarly => (sends' = sends /\ m_packetsSent' = m_packetsSent)]_vars

C3_Witness ==
    /\ stoppedEarly
    /\ Drained
    /\ Len(sends) = 1
    /\ nSendStep = 2
    /\ Less32(m_packetsSent, m_numPackets)

C6_SentWithinTotal ==
    /\ [](~Less32(m_numPackets, m_packetsSent) /\ Nat32(m_packetsSent) = Len(sends))
    /\ [][(m_packetsSent' # m_packetsSent \/ sends' # sends) =>
             /\ m_packetsSent' = Inc32(m_packetsSent)
             /\ Len(sends') = Len(sends) + 1
             /\ SubSeq(sends', 1, Len(sends)) = sends]_vars

C6_Witness ==
    /\ Configured
    /\ m_packetsSent = m_numPackets
    /\ Nat32(m_packetsSent) = 2
    /\ stops = MaxStops
    /\ conn = "succeeded"
    /\ pending = <<>>

\* the arrivals that carry a timestamp, in arrival order
Accepted == SelectSeq(arrivals, LAMBDA a : a.pkt.size >= 8)

\* C7: every arrival of at least 8 bytes adds one sample, and the sample is the
\* arrival instant minus the nanosecond count held in the first 8 payload
\* bytes: the arrival instant minus the sample encodes to exactly those bytes.
C7_LatencyIsDifference ==
    /\ Len(latencies) = Len(Accepted)
    /\ \A i \in 1 .. Len(Accepted) :
          Bytes64(Sub64(Accepted[i].time, latencies[i])) = SubSeq(Accepted[i].pkt.data, 1, 8)

C7_Witness ==
    /\ Len(latencies) = 2
    /\ Accepted[1].pkt.size = 8
    /\ ~IsNeg64(latencies[1]) /\ latencies[1] # Zero64
    /\ Accepted[2].pkt.size = 9

\* C8: the log holds as many samples as arrivals of at least 8 bytes so far;
\* an arrival of fewer bytes adds none and the arrivals around it are recorded.
C8_LogCountsWellFormed ==
    Len(latencies) = Cardinality({i \in 1 .. Len(arrivals) : arrivals[i].pkt.size >= 8})

C8_Witness ==
    /\ Len(arrivals) = 2
    /\ arrivals[1].pkt.size < 8
    /\ arrivals[2].pkt.size = 8
    /\ Len(latencies) = 1

\* C9 as stated: a payload whose timestamp lies after the arrival instant is not
\* appended as a sample, so every sample of the log is non-negative.
C9_NoNegativeSample ==
    \A i \in 1 .. Len(latencies) : ~IsNeg64(latencies[i])

\* C10 as stated: Setup with rate 0 is rejected, so a generator configured with
\* rate 0 opens no connection, holds no socket, schedules and sends nothing.
C10_ZeroRateRejected ==
    (Configured /\ cfg.rate = 0) =>
        /\ connects = 0
        /\ m_socket = NullPtr
        /\ nScheduled = 0
        /\ sends = <<>>

\* the connection state the members stand for
GenState ==
    IF m_socket # NullPtr THEN (IF m_connected THEN "Connected" ELSE "Connecting")
    ELSE IF stops > 0 THEN "Closed" ELSE "Idle"

\* what a flow that produces no events looks like
Silent ==
    /\ sends = <<>>
    /\ inflight = <<>>
    /\ pending = <<>>
    /\ nScheduled = 0
    /\ nSendStep = 0
    /\ m_packetsSent = U32(0)
    /\ \A i \in 1 .. Len(arrivals) : arrivals[i].pkt.size # 8

\* C11 as stated: after ConnectionFailed the generator is Closed and the flow
\* produces no events.
C11_FailureCloses ==
    conn = "failed" => (GenState = "Closed" /\ Silent)

\* C11, amended: ConnectionFailed changes no member, so the generator keeps its
\* socket, neither closed nor released, until StopApplication; the flow produces
\* no events: nothing scheduled, nothing sent, m_packetsSent 0, no sample of its
\* own in the log, while foreign arrivals are still recorded.
C11_FailureIsSilent ==
    conn = "failed" =>
        /\ Silent
        /\ ~m_connected
        /\ stops = 0 => (m_socket = OpenSocket /\ closes = 0)
        /\ GenState \in {"Connecting", "Closed"}

C11_Witness ==
    /\ conn = "failed"
    /\ stops = 0
    /\ GenState = "Connecting"
    /\ Len(latencies) = 1
    /\ Nat32(m_numPackets) = 2

\* the transitions of the connection state
Edges ==
    {<<"Idle", "Connecting">>, <<"Connecting", "Connected">>,
     <<"Connecting", "Closed">>, <<"Connected", "Closed">>}

\* C12 as stated: the connection state moves along the four transitions only, and
\* once Closed no step moves it out of Closed or marks the generator connected.
C12_ClosedIsTerminal ==
    [][/\ GenState' # GenState => <<GenState, GenState'>> \in Edges
       /\ GenState = "Closed" => (GenState' = "Closed" /\ (m_connected' => m_connected))]_vars

\* the transport has decided the connect attempt
Decided == conn \in {"succeeded", "failed", "unheard"}

\* C18 as stated: every outcome the transport decides, also one decided within
\* the Connect call, has run exactly one of the two continuations.
C18_OutcomeReachesContinuation ==
    Decided => conn \in {"succeeded", "failed"}

\* C13 as stated: every payload written to the socket has the configured
\* packetSize bytes (for packetSize >= 8), the first 8 of them encoding the
\* instant of the send in nanoseconds.
C13_PayloadHasConfiguredSize ==
    cfg.size >= 8 =>
        \A k \in 1 .. Len(sends) :
            /\ sends[k].pkt.size = cfg.size
            /\ SubSeq(sends[k].pkt.data, 1, 8) = Bytes64(sends[k].time)

\* C14: the log is append-only and in arrival order: the i-th sample is that of
\* the i-th arrival of at least 8 bytes; every step leaves the old log as a
\* prefix of the new one and adds at most one sample, exactly one with such an
\* arrival and none without an arrival, so no step of the generator changes it.
C14_LogAppendOnly ==
    /\ [](/\ Len(latencies) = Len(Accepted)
          /\ \A i \in 1 .. Len(latencies) :
                latencies[i] = Latency(Accepted[i].time, ExtractSendTime(Accepted[i].pkt)))
    /\ [][/\ Len(latencies') >= Len(latencies)
          /\ SubSeq(latencies', 1, Len(latencies)) = latencies
          /\ Len(latencies') = Len(latencies) + (Len(Accepted') - Len(Accepted))
          /\ Len(Accepted') <= Len(Accepted) + 1
          /\ arrivals' = arrivals => latencies' = latencies
          /\ (phase' # phase \/ conn' # conn \/ nSendStep' # nSendStep \/ stops' # stops)
                => latencies' = latencies]_vars

C14_Witness ==
    /\ Len(latencies) = 2
    /\ latencies[1] # latencies[2]
    /\ Len(sends) = 2
    /\ stops > 0

\* C16: an arrival changes no member of the generator and nothing the generator
\* scheduled or sent, and it is recorded the same with the socket released:
\* after StopApplication an arrival of at least 8 bytes still adds exactly the
\* sample arrival instant minus send instant.
C16_StopLeavesRecorderAlone ==
    [][arrivals' # arrivals =>
          /\ UNCHANGED <<genVars, pending, sends, stops, closes, nSendStep, nScheduled>>
          /\ GenState' = GenState
          /\ LET a == arrivals'[Len(arrivals')]
             IN  (stops > 0 /\ a.pkt.size >= 8) =>
                    latencies' = Append(latencies, Latency(a.time, ExtractSendTime(a.pkt)))]_vars

C16_Witness ==
    /\ Len(sends) = 1 /\ Nat32(m_numPackets) = 2
    /\ stops > 0 /\ m_socket = NullPtr
    /\ Len(arrivals) = 1
    /\ arrivals[1].pkt = sends[1].pkt
    /\ Less64(sends[1].time, arrivals[1].time)
    /\ latencies = <<Sub64(arrivals[1].time, sends[1].time)>>

\* C19: Socket::Close is called at most once in a run; every StopApplication
\* leaves m_socket null; one that finds m_socket null (a second one, or one
\* before StartApplication) closes nothing and changes no member, and one that
\* finds a socket closes it once.
C19_StopIdempotent ==
    /\ [](closes <= 1)
    /\ [][stops' # stops =>
             /\ m_socket' = NullPtr
             /\ UNCHANGED <<m_connected, m_packetSize, m_numPackets, m_interval,
                            m_packetsSent, pending, sends, nSendStep, nScheduled>>
             /\ IF m_socket = NullPtr THEN closes' = closes ELSE closes' = closes + 1]_vars

C19_Witness ==
    /\ stops = 2 /\ closes = 1
    /\ connects = 1 /\ m_connected
    /\ m_socket = NullPtr
    /\ Len(sends) = 1 /\ pending = <<>>

\* C20: the chain of scheduled SendPacket calls ends: SendPacket is never invoked
\* more than m_numPackets + 1 times, and when every scheduled callback is
\* eventually run the queue of scheduled calls becomes empty and stays empty,
\* whether the run is stopped or not and whatever the connect attempt's outcome.
C20_SchedulingTerminates ==
    /\ [](Configured => nSendStep <= Nat32(m_numPackets) + 1)
    /\ <>[](pending = <<>>)

C20_Witness ==
    /\ Drained
    /\ stops = 0
    /\ Nat32(m_numPackets) = 2
    /\ nSendStep = 3 /\ nScheduled = 2

\* C17 as stated: the packet count Setup stores is the mathematical product of
\* rate and duration for all positive uint32_t arguments.
C17_TrueProduct ==
    Configured => Widen(m_numPackets) = Product64(cfg.rate, cfg.duration)

\* C1 as stated, for every configuration with rate > 0: the sends never exceed
\* rate * duration, and are exactly that many once the connection has
\* succeeded, the scheduler has drained and StopApplication never ran with
\* packets left.
C1_SendsEqualProduct ==
    Configured =>
        /\ ~LessU64(Product64(cfg.rate, cfg.duration), FromNat(Len(sends)))
        /\ (Drained /\ ~stoppedEarly) =>
              FromNat(Len(sends)) = Product64(cfg.rate, cfg.duration)

\* the run is over: connected, nothing scheduled and nothing in flight
Completed == conn = "succeeded" /\ pending = <<>> /\ inflight = <<>>

\* C15: with rate 10 and duration 10 the sends are at most 100, the first at
\* the instant of ConnectionSucceeded and each next one a tenth of a second
\* after the one before; the i-th arrival carries the timestamp of the i-th
\* send unchanged and every sample equals the transit delay (zero when the
\* delay is zero); a completed run has exactly 100 sends and 100 samples.
C15_EndToEnd ==
    /\ Len(sends) <= MainRate * MainDuration
    /\ \A k \in 1 .. Len(sends) :
          sends[k].time = IF k = 1 THEN connTime
                          ELSE Add64(sends[k - 1].time, FromNat(NsPerSecond \div MainRate))
    /\ Len(latencies) = Len(arrivals) /\ Len(arrivals) <= Len(sends)
    /\ \A i \in 1 .. Len(arrivals) :
          /\ ExtractSendTime(arrivals[i].pkt) = sends[i].time
          /\ latencies[i] = Sub64(arrivals[1].time, sends[1].time)
          /\ latencies[i] \in Transits
          /\ arrivals[i].time = sends[i].time => latencies[i] = Zero64
    /\ Completed =>
          /\ Len(sends) = MainRate * MainDuration
          /\ Len(latencies) = MainRate * MainDuration

C15_Witness ==
    /\ Completed
    /\ Len(sends) = 100
    /\ Len(latencies) = 100
    /\ latencies[100] = FromNat(Delta)
    /\ Sub64(sends[100].time, sends[99].time) = FromNat(100000000)
    /\ Sub64(arrivals[100].time, sends[100].time) = FromNat(Delta)

====
